---- MODULE Spec2Model ----
(***************************************************************************)
(* A model of pyGPO.py: one run of pyGPO.run() against a directory         *)
(* service, and the pure function pyGPO.getBaseDN().                       *)
(*                                                                         *)
(* Strings the program splits, joins and strips (the policy DN, the        *)
(* target DNs) are sequences of tokens: the token "," is a comma, the      *)
(* tokens of Whitespace are whitespace characters, and every other token   *)
(* is a non-empty run of characters holding neither.  str.split(','),      *)
(* ','.join() and str.strip() look at nothing else.  Python's None is the  *)
(* value None below; the empty string is <<>>.                             *)
(*                                                                         *)
(* The directory service and the ldap3 library are the environment: the    *)
(* model gives each library call the outcomes the library documents.       *)
(***************************************************************************)
EXTENDS Integers, Sequences, FiniteSets, TLC

VARIABLES
    args,       \* self.args: domaincontroller, domain, gpodn, link, unlink
    pc,         \* position of the process in run()
    ret,        \* where listLinksForGPO returns to
    conn,       \* the session: "none", "open" (bound), "closed" (unbound)
    result,     \* conn.result["result"] of the last library call, -1 before any
    entries,    \* conn.entries of the last search
    base_dn,    \* the local base_dn of getBaseDN / listLinksForGPO
    listLinks,  \* the answer read by input() in linkGPO / unlinkGPO
    gPLink,     \* the directory: gPLink attribute of each object
    exc,        \* how the process ended early: "none", "SystemExit", or an uncaught exception
    trace       \* the calls the run has made, and its console messages, in order

vars == <<args, pc, ret, conn, result, entries, base_dn, listLinks, gPLink, exc, trace>>

----------------------------------------------------------------------------
(* Values *)

None == <<"None">>
Unbound == <<"<unbound>">>

Whitespace == {" ", "\t"}

\* Python truthiness of an optional string argument: None and '' are falsy.
Truthy(x) == x # None /\ x # <<>>

----------------------------------------------------------------------------
(* str.split(','), ','.join(...), str.strip() on token sequences *)

RECURSIVE Split(_)
Split(s) ==
    IF \A i \in 1..Len(s) : s[i] # ","
    THEN <<s>>
    ELSE LET k == CHOOSE i \in 1..Len(s) :
                      s[i] = "," /\ \A j \in 1..(i-1) : s[j] # ","
         IN  <<SubSeq(s, 1, k-1)>> \o Split(SubSeq(s, k+1, Len(s)))

RECURSIVE Join(_)
Join(parts) ==
    IF Len(parts) = 0 THEN <<>>
    ELSE IF Len(parts) = 1 THEN parts[1]
    ELSE parts[1] \o <<",">> \o Join(Tail(parts))

RECURSIVE LStrip(_)
LStrip(s) ==
    IF Len(s) > 0 /\ s[1] \in Whitespace THEN LStrip(Tail(s)) ELSE s

RECURSIVE RStrip(_)
RStrip(s) ==
    IF Len(s) > 0 /\ s[Len(s)] \in Whitespace
    THEN RStrip(SubSeq(s, 1, Len(s)-1)) ELSE s

Strip(s) == RStrip(LStrip(s))

\* components[:2], the first two components instead of the last two
MutLastTwo(components) ==
    SubSeq(components, 1, 2)

\* components[-2:]
LastTwo(components) ==
    SubSeq(components, Len(components) - 1, Len(components))

----------------------------------------------------------------------------
(* pyGPO.getBaseDN: what it raises, and what it returns when it returns *)

getBaseDN(gpodn) ==
    IF ~Truthy(gpodn)
    THEN [raised |-> "SystemExit", value |-> Unbound]
    ELSE LET components == Split(gpodn)
         IN  IF Len(components) >= 2
             THEN [raised |-> "none", value |-> Strip(Join(LastTwo(components)))]
             ELSE [raised |-> "UnboundLocalError", value |-> Unbound]

----------------------------------------------------------------------------
(* The inputs of a run *)

Root == <<"DC=corp", ",", "DC=local">>
Sales == <<"OU=Sales", ",", "DC=corp", ",", "DC=local">>
Ghost == <<"OU=Ghost", ",", "DC=corp", ",", "DC=local">>

\* Policy DNs: in the directory's domain, the same written with a blank after
\* a comma, one of another domain, one with a single component.
PolicyDN == <<"CN=P", ",", "DC=corp", ",", "DC=local">>
PolicyDNBlank == <<"CN=P", ",", " ", "DC=corp", ",", "DC=local">>
PolicyDNOther == <<"CN=P", ",", "DC=other", ",", "DC=local">>
PolicyDNShort == <<"CN=P">>

Host == <<"10.1.10.1">>
Domain == <<"corp.local">>

GpoDNs == {None, <<>>, PolicyDN, PolicyDNBlank, PolicyDNOther, PolicyDNShort}
Targets == {None, Sales, Ghost}

\* What the user may type at the prompt.
Answers == {"", "y", "Y", "n", "N", "yes", " y"}

\* How Connection(..., auto_bind=True) ends: bound, the bind rejected, or
\* the server not reached (an exception that is no LDAPBindError).
BindOutcomes == {"ok", "LDAPBindError", "LDAPSocketOpenError"}

----------------------------------------------------------------------------
(* The directory service behind conn.search and conn.modify *)

Objects == {Root, Sales}

\* The server compares DNs with the blanks around their components ignored.
Norm(dn) == SelectSeq(dn, LAMBDA t : t \notin Whitespace)

Exists(dn) == \E o \in Objects : Norm(dn) = o

ObjectOf(dn) == CHOOSE o \in Objects : Norm(dn) = o

\* o is base or lies below it.
IsUnder(o, base) ==
    \E i \in 1..Len(o) :
        /\ SubSeq(o, i, Len(o)) = Norm(base)
        /\ (i = 1 \/ o[i-1] = ",")

\* conn.search(search_base=base, search_filter="(gPLink=<gpodn>)", SUBTREE)
Search(dir, base, gpodn) ==
    IF Exists(base)
    THEN [result |-> 0,
          entries |-> {o \in Objects : IsUnder(o, base) /\ dir[o] = gpodn}]
    ELSE [result |-> 32, entries |-> {}]

\* conn.modify(target, {'gPLink': [(MODIFY_REPLACE, [gpodn])]})
ModifyReplace(dir, target, gpodn, allowed) ==
    IF ~Exists(target) THEN [result |-> 32, dir |-> dir]
    ELSE IF ~allowed THEN [result |-> 50, dir |-> dir]
    ELSE [result |-> 0, dir |-> [dir EXCEPT ![ObjectOf(target)] = gpodn]]

\* conn.modify(target, {'gPLink': [(MODIFY_DELETE, [gpodn])]})
ModifyDelete(dir, target, gpodn, allowed) ==
    IF ~Exists(target) THEN [result |-> 32, dir |-> dir]
    ELSE IF ~allowed THEN [result |-> 50, dir |-> dir]
    ELSE IF dir[ObjectOf(target)] # gpodn THEN [result |-> 16, dir |-> dir]
    ELSE [result |-> 0, dir |-> [dir EXCEPT ![ObjectOf(target)] = None]]

----------------------------------------------------------------------------
(* The conditions of run() and of the prompts *)

\* run(): "if not self.args.domaincontroller" / "if not self.args.domain"
MissingController(a) == ~Truthy(a.domaincontroller)

\* "if self.args.domain is None": the empty string passes
MutMissingDomain(a) == a.domain = None

MissingDomain(a) == ~Truthy(a.domain)

\* "if self.args.gpodn and not self.args.link": the unlink target not looked at
MutWantsList(a) == Truthy(a.gpodn) /\ ~Truthy(a.link)

WantsList(a) == Truthy(a.gpodn) /\ ~Truthy(a.link) /\ ~Truthy(a.unlink)

WantsLink(a) == Truthy(a.gpodn) /\ Truthy(a.link)

WantsUnlink(a) == Truthy(a.gpodn) /\ Truthy(a.unlink)

\* the answer "yes" taken for a yes too
MutIsYes(answer) == answer = "" \/ answer = "y" \/ answer = "Y" \/ answer = "yes"

IsYes(answer) == answer = "" \/ answer = "y" \/ answer = "Y"

\* the except branch without its exit(): init_conn goes on after a rejected bind
MutAfterBind(outcome) ==
    IF outcome = "ok" \/ outcome = "LDAPBindError" THEN "dispatch_list"
    ELSE "crashed"

\* init_conn(): where the process is after Connection(...) ended with outcome.
AfterBind(outcome) ==
    IF outcome = "ok" THEN "dispatch_list"
    ELSE IF outcome = "LDAPBindError" THEN "exited"
    ELSE "crashed"

----------------------------------------------------------------------------
(* One run of the program *)

Init ==
    /\ args \in [domaincontroller : {None, <<>>, Host},
                 domain : {None, <<>>, Domain},
                 gpodn : GpoDNs,
                 link : Targets,
                 unlink : Targets]
    /\ pc = "run"
    /\ ret = "none"
    /\ conn = "none"
    /\ result = -1
    /\ entries = {}
    /\ base_dn = Unbound
    /\ listLinks = "<unset>"
    /\ gPLink \in [Objects -> {None, PolicyDN}]
    /\ exc = "none"
    /\ trace = <<>>

\* run(), lines 55-62: the checks of the arguments needed to authenticate.
RunCheckArgs ==
    /\ pc = "run"
    /\ IF MissingController(args)
       THEN /\ trace' = trace \o <<"print:need_dc">>
            /\ pc' = "exited"
            /\ exc' = "SystemExit"
       ELSE IF MissingDomain(args)
       THEN /\ trace' = trace \o <<"print:need_domain">>
            /\ pc' = "exited"
            /\ exc' = "SystemExit"
       ELSE /\ trace' = trace
            /\ pc' = "init_conn"
            /\ exc' = exc
    /\ UNCHANGED <<args, ret, conn, result, entries, base_dn, listLinks, gPLink>>

\* init_conn(): the server object, the connection with auto_bind, the report.
InitConn ==
    /\ pc = "init_conn"
    /\ \E outcome \in BindOutcomes :
        /\ pc' = AfterBind(outcome)
        /\ IF outcome = "ok"
           THEN /\ conn' = "open"
                /\ result' = 0
                /\ exc' = exc
                /\ trace' = trace \o <<"Server", "Connection:ok", "print:authenticated">>
           ELSE IF outcome = "LDAPBindError"
           THEN /\ conn' = conn
                /\ result' = result
                /\ exc' = "SystemExit"
                /\ trace' = trace \o <<"Server", "Connection:LDAPBindError", "print:could_not_connect">>
           ELSE /\ conn' = conn
                /\ result' = result
                /\ exc' = outcome
                /\ trace' = trace \o <<"Server", "Connection:LDAPSocketOpenError">>
    /\ UNCHANGED <<args, ret, entries, base_dn, listLinks, gPLink>>

\* run(), lines 68-70
DispatchList ==
    /\ pc = "dispatch_list"
    /\ \/ /\ WantsList(args)
          /\ pc' = "listLinksForGPO"
          /\ ret' = "dispatch_link"
          /\ trace' = trace \o <<"run->listLinksForGPO">>
       \/ /\ ~WantsList(args)
          /\ pc' = "dispatch_link"
          /\ ret' = ret
          /\ trace' = trace
    /\ UNCHANGED <<args, conn, result, entries, base_dn, listLinks, gPLink, exc>>

\* listLinksForGPO(): getBaseDN, the search, the report.
ListLinksForGPO ==
    /\ pc = "listLinksForGPO"
    /\ LET r == getBaseDN(args.gpodn)
           s == Search(gPLink, r.value, args.gpodn)
       IN  IF r.raised = "SystemExit"
           THEN /\ trace' = trace \o <<"print:need_gpodn">>
                /\ pc' = "exited"
                /\ exc' = r.raised
                /\ UNCHANGED <<base_dn, result, entries>>
           ELSE IF r.raised # "none"
           THEN /\ trace' = trace
                /\ pc' = "crashed"
                /\ exc' = r.raised
                /\ UNCHANGED <<base_dn, result, entries>>
           ELSE /\ base_dn' = r.value
                /\ result' = s.result
                /\ entries' = s.entries
                /\ trace' = trace \o <<"conn.search",
                                       IF s.entries # {} THEN "print:linked_objects"
                                                         ELSE "print:no_linked_objects">>
                /\ pc' = ret
                /\ exc' = exc
    /\ UNCHANGED <<args, ret, conn, listLinks, gPLink>>

\* run(), lines 73-75
DispatchLink ==
    /\ pc = "dispatch_link"
    /\ \/ /\ WantsLink(args)
          /\ pc' = "linkGPO"
          /\ trace' = trace \o <<"run->linkGPO">>
       \/ /\ ~WantsLink(args)
          /\ pc' = "dispatch_unlink"
          /\ trace' = trace
    /\ UNCHANGED <<args, ret, conn, result, entries, base_dn, listLinks, gPLink, exc>>

\* linkGPO(), lines 155-165: the replace modify and its report.
LinkGPO ==
    /\ pc = "linkGPO"
    /\ \E allowed \in BOOLEAN :
        LET m == ModifyReplace(gPLink, args.link, args.gpodn, allowed)
        IN  /\ gPLink' = m.dir
            /\ result' = m.result
            /\ trace' = trace \o <<"conn.modify:REPLACE",
                                   IF m.result = 0 THEN "print:linked"
                                                   ELSE "print:link_failed">>
    /\ pc' = "link_prompt"
    /\ UNCHANGED <<args, ret, conn, entries, base_dn, listLinks, exc>>

\* linkGPO(), lines 168-171: the prompt and the follow-up list.
LinkPrompt ==
    /\ pc = "link_prompt"
    /\ \E answer \in Answers :
        /\ listLinks' = answer
        /\ IF IsYes(answer)
           THEN /\ pc' = "listLinksForGPO"
                /\ ret' = "dispatch_unlink"
                /\ trace' = trace \o <<"input", "linkGPO->listLinksForGPO">>
           ELSE /\ pc' = "dispatch_unlink"
                /\ ret' = ret
                /\ trace' = trace \o <<"input">>
    /\ UNCHANGED <<args, conn, result, entries, base_dn, gPLink, exc>>

\* run(), lines 78-80
DispatchUnlink ==
    /\ pc = "dispatch_unlink"
    /\ \/ /\ WantsUnlink(args)
          /\ pc' = "unlinkGPO"
          /\ trace' = trace \o <<"run->unlinkGPO">>
       \/ /\ ~WantsUnlink(args)
          /\ pc' = "unbind"
          /\ trace' = trace
    /\ UNCHANGED <<args, ret, conn, result, entries, base_dn, listLinks, gPLink, exc>>

\* unlinkGPO(), lines 178-187: the delete modify and its report.
UnlinkGPO ==
    /\ pc = "unlinkGPO"
    /\ \E allowed \in BOOLEAN :
        LET m == ModifyDelete(gPLink, args.unlink, args.gpodn, allowed)
        IN  /\ gPLink' = m.dir
            /\ result' = m.result
            /\ trace' = trace \o <<"conn.modify:DELETE",
                                   IF m.result = 0 THEN "print:unlinked"
                                                   ELSE "print:unlink_failed">>
    /\ pc' = "unlink_prompt"
    /\ UNCHANGED <<args, ret, conn, entries, base_dn, listLinks, exc>>

\* unlinkGPO(), lines 190-193: the prompt and the follow-up list.
UnlinkPrompt ==
    /\ pc = "unlink_prompt"
    /\ \E answer \in Answers :
        /\ listLinks' = answer
        /\ IF IsYes(answer)
           THEN /\ pc' = "listLinksForGPO"
                /\ ret' = "unbind"
                /\ trace' = trace \o <<"input", "unlinkGPO->listLinksForGPO">>
           ELSE /\ pc' = "unbind"
                /\ ret' = ret
                /\ trace' = trace \o <<"input">>
    /\ UNCHANGED <<args, conn, result, entries, base_dn, gPLink, exc>>

\* run(), line 83
Unbind ==
    /\ pc = "unbind"
    /\ conn' = "closed"
    /\ trace' = trace \o <<"conn.unbind">>
    /\ pc' = "done"
    /\ UNCHANGED <<args, ret, result, entries, base_dn, listLinks, gPLink, exc>>

Next ==
    \/ RunCheckArgs
    \/ InitConn
    \/ DispatchList
    \/ ListLinksForGPO
    \/ DispatchLink
    \/ LinkGPO
    \/ LinkPrompt
    \/ DispatchUnlink
    \/ UnlinkGPO
    \/ UnlinkPrompt
    \/ Unbind

Spec == Init /\ [][Next]_vars

\* The process has ended: run() returned, exit() was called, or an exception
\* reached the top level.
Ended == pc \in {"done", "exited", "crashed"}

Has(e) == \E i \in DOMAIN trace : trace[i] = e

Last(t) == IF Len(t) = 0 THEN "<nothing>" ELSE t[Len(t)]

\* init_conn returned a session to run().
GotSession == Has("Connection:ok")

\* The operations run() itself has called.
Dispatched ==
    {e \in {"run->listLinksForGPO", "run->linkGPO", "run->unlinkGPO"} : Has(e)}


----------------------------------------------------------------------------
(* Properties of a run *)

Commas(s) == Cardinality({i \in 1..Len(s) : s[i] = ","})

AllSet == Truthy(args.gpodn) /\ Truthy(args.link) /\ Truthy(args.unlink)

SessionEvents ==
    {"Server", "Connection:ok", "Connection:LDAPBindError",
     "Connection:LDAPSocketOpenError"}

DirectoryCalls == {"conn.search", "conn.modify:REPLACE", "conn.modify:DELETE"}

\* C1: once init_conn has returned a session, the process does not end
\* without conn.unbind() having closed it.
C1_SessionClosedAtEnd ==
    (Ended /\ GotSession) => (Has("conn.unbind") /\ conn = "closed")

\* C2: when the follow-up list of an accepted link (modify result 0) is over,
\* the just-linked target is among the entries it found.
C2_ListShowsLinkedTarget ==
    \A i \in DOMAIN trace :
        ( /\ trace[i] = "linkGPO->listLinksForGPO"
          /\ trace[i-2] = "print:linked"
          /\ Len(trace) <= i + 2
          /\ pc # "listLinksForGPO" )
        => ( /\ pc # "crashed"
             /\ Exists(args.link)
             /\ ObjectOf(args.link) \in entries )

\* C3: with the policy DN, the link target and the unlink target all set, a
\* run that got a session has, when it ends, issued the replace modify and
\* after it the delete modify, and has not dispatched the list mode.
C3_LinkThenUnlink ==
    (Ended /\ GotSession /\ AllSet)
    => ( /\ \E i, j \in DOMAIN trace :
              /\ i < j
              /\ trace[i] = "conn.modify:REPLACE"
              /\ trace[j] = "conn.modify:DELETE"
         /\ ~Has("run->listLinksForGPO") )

\* C4 as stated: a run that got a session has, when it ends, dispatched
\* exactly one of listLinksForGPO, linkGPO, unlinkGPO.
C4_ExactlyOneDispatched ==
    (Ended /\ GotSession) => Cardinality(Dispatched) = 1

\* C4 as amended: a run that got a session has, when it ends, dispatched
\* exactly one of the three when the policy DN is set and the link and unlink
\* targets are not both set (list with neither, link or unlink with the one
\* that is set); none when the policy DN is unset; and with both targets set,
\* linkGPO and never listLinksForGPO.
C4_DispatchByFlags ==
    (Ended /\ GotSession)
    => /\ ~Truthy(args.gpodn) => Dispatched = {}
       /\ (Truthy(args.gpodn) /\ ~Truthy(args.link) /\ ~Truthy(args.unlink))
            => Dispatched = {"run->listLinksForGPO"}
       /\ (Truthy(args.gpodn) /\ Truthy(args.link) /\ ~Truthy(args.unlink))
            => Dispatched = {"run->linkGPO"}
       /\ (Truthy(args.gpodn) /\ ~Truthy(args.link) /\ Truthy(args.unlink))
            => Dispatched = {"run->unlinkGPO"}
       /\ AllSet => /\ "run->linkGPO" \in Dispatched
                    /\ "run->listLinksForGPO" \notin Dispatched

C4_Witness ==
    /\ pc = "done"
    /\ GotSession
    /\ Dispatched = {"run->unlinkGPO"}
    /\ Has("conn.modify:DELETE")

\* C5: with the domain controller or the domain unset or empty, the run ends
\* in run() before init_conn: no server object, no bind, no search, no modify.
C5_NoConnectionWithoutHostOrDomain ==
    (~Truthy(args.domaincontroller) \/ ~Truthy(args.domain))
    => /\ pc \in {"run", "exited"}
       /\ conn = "none"
       /\ \A i \in DOMAIN trace : trace[i] \notin SessionEvents \cup DirectoryCalls
       /\ pc = "exited" => (Has("print:need_dc") \/ Has("print:need_domain"))

C5_Witness ==
    /\ pc = "exited"
    /\ Truthy(args.domaincontroller)
    /\ args.domain = <<>>
    /\ AllSet
    /\ trace = <<"print:need_domain">>

\* C6: with the domain controller and the domain set and the policy DN
\* missing, no session is ever created, and the run ends by exit() after
\* reporting the missing policy DN.
C6_NoSessionWithoutPolicyDN ==
    (Truthy(args.domaincontroller) /\ Truthy(args.domain) /\ ~Truthy(args.gpodn))
    => /\ conn = "none"
       /\ ~Has("Server")
       /\ Ended => (pc = "exited" /\ Has("print:need_gpodn"))

\* C7: the dispatch of run() is reached only with a bound session whose bind
\* result is 0, a rejected bind is reported and ends the process at once, and
\* no search or modify is issued in a run whose bind did not succeed.
C7_NoOperationWithoutBind ==
    /\ pc = "dispatch_list" => (conn = "open" /\ result = 0 /\ GotSession)
    /\ Has("Connection:LDAPBindError")
         => (pc = "exited" /\ conn = "none" /\ Last(trace) = "print:could_not_connect")
    /\ ~GotSession
         => /\ Dispatched = {}
            /\ \A i \in DOMAIN trace : trace[i] \notin DirectoryCalls

C7_Witness ==
    /\ Has("Connection:LDAPBindError")
    /\ pc = "exited"
    /\ AllSet

\* C9: a list request whose policy DN is non-empty and has no comma does not
\* end in an exception: its search is issued and the list returns.
C9_ShortDNListCompletes ==
    ( /\ Truthy(args.gpodn)
      /\ Commas(args.gpodn) = 0
      /\ Has("run->listLinksForGPO")
      /\ pc # "listLinksForGPO" )
    => (exc = "none" /\ Has("conn.search"))

\* C10: a successful modify is followed by the prompt; the follow-up list is
\* called, at once, exactly when the answer is the empty line, "y" or "Y";
\* any other answer goes on to the next dispatch of run() with no search; and
\* every search is the first thing a call of listLinksForGPO does.
C10_PromptDecidesFollowUp ==
    /\ \A i \in DOMAIN trace :
         /\ trace[i] \in {"print:linked", "print:unlinked"}
              => IF i < Len(trace) THEN trace[i+1] = "input"
                 ELSE pc \in {"link_prompt", "unlink_prompt"}
         /\ trace[i] \in {"linkGPO->listLinksForGPO", "unlinkGPO->listLinksForGPO"}
              => trace[i-1] = "input"
         /\ trace[i] = "conn.search"
              => trace[i-1] \in {"run->listLinksForGPO", "linkGPO->listLinksForGPO",
                                 "unlinkGPO->listLinksForGPO"}
    /\ Last(trace) = "input"
         => /\ listLinks \notin {"", "y", "Y"}
            /\ pc \in {"dispatch_unlink", "unbind"}
    /\ Last(trace) \in {"linkGPO->listLinksForGPO", "unlinkGPO->listLinksForGPO"}
         => /\ listLinks \in {"", "y", "Y"}
            /\ pc \in {"listLinksForGPO", "crashed"}
    /\ (pc = "listLinksForGPO" /\ ret # "dispatch_link")
         => Last(trace) \in {"linkGPO->listLinksForGPO", "unlinkGPO->listLinksForGPO"}

C10_Witness ==
    /\ pc = "unbind"
    /\ Has("print:linked")
    /\ Has("linkGPO->listLinksForGPO")
    /\ Has("print:unlinked")
    /\ ~Has("unlinkGPO->listLinksForGPO")
    /\ listLinks = "yes"
    /\ Cardinality({i \in DOMAIN trace : trace[i] = "conn.search"}) = 1

----------------------------------------------------------------------------
(* getBaseDN on its own, over every short policy DN *)

MaxLen == 5

Chars == {"a", "b", ",", " "}

Strings == UNION {[1..n -> Chars] : n \in 0..MaxLen}

InitDN ==
    /\ args \in [domaincontroller : {Host},
                 domain : {Domain},
                 gpodn : Strings \cup {None},
                 link : {None},
                 unlink : {None}]
    /\ pc = "getBaseDN"
    /\ ret = "none"
    /\ conn = "none"
    /\ result = -1
    /\ entries = {}
    /\ base_dn = Unbound
    /\ listLinks = "<unset>"
    /\ gPLink = [o \in Objects |-> None]
    /\ exc = "none"
    /\ trace = <<>>

CallGetBaseDN ==
    /\ pc = "getBaseDN"
    /\ LET r == getBaseDN(args.gpodn)
       IN  /\ base_dn' = r.value
           /\ exc' = r.raised
           /\ pc' = IF r.raised = "none" THEN "returned" ELSE "raised"
    /\ UNCHANGED <<args, ret, conn, result, entries, listLinks, gPLink, trace>>

NextDN == CallGetBaseDN

SpecDN == InitDN /\ [][NextDN]_vars

\* The last two components of s as they stand in s, with the comma between
\* them: the part of s after its last comma but one.
TailTwo(s) ==
    LET i == CHOOSE k \in 1..Len(s) :
                 /\ (k = 1 \/ s[k-1] = ",")
                 /\ Commas(SubSeq(s, k, Len(s))) = 1
    IN  SubSeq(s, i, Len(s))

\* r is t without the whitespace at its two ends.
IsStripOf(r, t) ==
    \E j \in 1..(Len(t) + 1), k \in 0..Len(t) :
        /\ r = SubSeq(t, j, k)
        /\ \A i \in 1..(j-1) : t[i] \in Whitespace
        /\ \A i \in (k+1)..Len(t) : t[i] \in Whitespace
        /\ r # <<>> => (r[1] \notin Whitespace /\ r[Len(r)] \notin Whitespace)

\* C8 as stated: for a policy DN of two components or more, getBaseDN returns
\* the last two components and the comma between them, character for character.
C8_LastTwoVerbatim ==
    (pc # "getBaseDN" /\ Truthy(args.gpodn) /\ Commas(args.gpodn) >= 1)
    => (pc = "returned" /\ base_dn = TailTwo(args.gpodn))

\* C8 as amended: for a policy DN of two components or more, getBaseDN returns
\* the last two components and the comma between them with the whitespace at
\* the start and at the end of that string removed, and nothing else changed.
C8_LastTwoStripped ==
    (pc # "getBaseDN" /\ Truthy(args.gpodn) /\ Commas(args.gpodn) >= 1)
    => (pc = "returned" /\ exc = "none" /\ IsStripOf(base_dn, TailTwo(args.gpodn)))

C8_Witness ==
    /\ pc = "returned"
    /\ Commas(args.gpodn) = 2
    /\ base_dn # TailTwo(args.gpodn)
    /\ Commas(base_dn) = 1
    /\ Len(base_dn) = 3

====
